---- MODULE Spec2Model ----
(***************************************************************************)
(* Model of the construction asserter (asserter/construction.go): the      *)
(* checks ConstructionMetadata, ConstructionSubmit, PublicKey, CurveType,  *)
(* checkHex, SigningPayload, Signatures and SignatureType.                 *)
(*                                                                         *)
(* Representation                                                          *)
(*   - a Go string holding bytes as hex text is a sequence of one-         *)
(*     character strings; an enumeration tag or an address is a TLA+       *)
(*     string, compared exactly as Go compares strings;                    *)
(*   - a pointer is Nil (the empty sequence) or Ptr(v) (a one-element      *)
(*     sequence); a field is read only through Deref;                      *)
(*   - a Go error is the sequence of the messages that fmt.Errorf("%w...") *)
(*     chains, innermost first; the nil error is NoError;                  *)
(*   - a call either returns an error value (Return) or aborts with the    *)
(*     runtime panic of a nil pointer dereference (Fault).                 *)
(***************************************************************************)
EXTENDS Integers, Sequences, FiniteSets, TLC

VARIABLES fn, arg, result

vars == <<fn, arg, result>>

(***************************************************************************)
(* Bounds of the model.                                                    *)
(***************************************************************************)
\* longest hex text handed to checkHex directly
MaxStrLen == 3
\* longest list handed to Signatures
MaxSigs == 2

(***************************************************************************)
(* Pointers, errors and results.                                           *)
(***************************************************************************)
Nil == <<>>

Ptr(v) == <<v>>

Deref(p) == p[1]

NoError == <<>>

\* one message of an error chain: the format string and its formatted verbs
Frame(msg, index, tag, text) == [msg |-> msg, index |-> index, tag |-> tag, text |-> text]

\* errors.New(msg)
New(msg) == <<Frame(msg, <<>>, <<>>, <<>>)>>

\* fmt.Errorf("%w " + msg, err)
Wrap(err, msg) == Append(err, Frame(msg, <<>>, <<>>, <<>>))

\* fmt.Errorf("%w: signature %d " + msg, err, i)
WrapIndex(err, msg, i) == Append(err, Frame(msg, <<i>>, <<>>, <<>>))

Return(err) == [fault |-> FALSE, err |-> err]

Fault == [fault |-> TRUE, err |-> NoError]

(***************************************************************************)
(* The messages of construction.go.                                        *)
(***************************************************************************)
ErrNilMetadata == "Metadata is nil"

ErrNilPublicKey == "PublicKey cannot be nil"

ErrPublicKeyHex == "public key does not have valid hex"

ErrPublicKeyCurve == "public key curve type is not supported"

ErrCurveType == "%s is not a supported CurveType"

ErrEmptyValue == "hex string cannot be empty"

ErrInvalidHex == "%s is not a valid hex string"

ErrNilSigningPayload == "signing payload cannot be nil"

ErrEmptyAddress == "signing payload address cannot be empty"

ErrPayloadHex == "signature payload is not a valid hex string"

ErrPayloadSignatureType == "signature payload signature type is not valid"

ErrEmptySignatureList == "signatures cannot be empty"

ErrSigSigningPayload == "signature %d has invalid signing payload"

ErrSigPublicKey == "signature %d has invalid public key"

ErrSigSignatureType == "signature %d has invalid signature type"

ErrSignatureTypeMismatch == "requested signature type does not match returned signature type"

ErrSigHex == "signature %d has invalid hex"

ErrSignatureType == "%s is not a supported SignatureType"

(***************************************************************************)
(* The enumeration constants of package types.                             *)
(***************************************************************************)
Secp256k1 == "secp256k1"

Edwards25519 == "edwards25519"

Ecdsa == "ecdsa"

EcdsaRecovery == "ecdsa_recovery"

Ed25519 == "ed25519"

(***************************************************************************)
(* encoding/hex, as called by checkHex.                                    *)
(***************************************************************************)
HexDigits == {"0", "1", "2", "3", "4", "5", "6", "7", "8", "9",
              "a", "b", "c", "d", "e", "f", "A", "B", "C", "D", "E", "F"}

fromHexChar(c) == c \in HexDigits

ErrLength == "encoding/hex: odd length hex string"

InvalidByteError == "encoding/hex: invalid byte"

\* the first position of a complete pair of s holding a non-hex character, 0 if none
FirstBadInPairs(s) ==
    LET bad == {j \in 1..(2 * (Len(s) \div 2)) : ~fromHexChar(s[j])}
    IN  IF bad = {} THEN 0 ELSE CHOOSE j \in bad : \A k \in bad : j <= k

\* hex.DecodeString(s): the error it returns (NoError when s decodes)
DecodeString(s) ==
    IF FirstBadInPairs(s) # 0
    THEN New(InvalidByteError)
    ELSE IF Len(s) % 2 = 1
         THEN IF ~fromHexChar(s[Len(s)])
              THEN New(InvalidByteError)
              ELSE New(ErrLength)
         ELSE NoError

(***************************************************************************)
(* The checks.                                                             *)
(***************************************************************************)
\* faulty variant of checkHex: the length test is missing
checkHexNoEmptyCheck(hexString) ==
    LET err == DecodeString(hexString)
    IN  IF err # NoError
        THEN Return(Append(err, Frame(ErrInvalidHex, <<>>, <<>>, <<hexString>>)))
        ELSE Return(NoError)

checkHex(hexString) ==
    IF Len(hexString) = 0
    THEN Return(New(ErrEmptyValue))
    ELSE LET err == DecodeString(hexString)
         IN  IF err # NoError
             THEN Return(Append(err, Frame(ErrInvalidHex, <<>>, <<>>, <<hexString>>)))
             ELSE Return(NoError)

\* faulty variant of CurveType: the empty tag is accepted
CurveTypeEmptyAllowed(curve) ==
    IF curve \in {Secp256k1, Edwards25519, ""}
    THEN Return(NoError)
    ELSE Return(<<Frame(ErrCurveType, <<>>, <<curve>>, <<>>)>>)

CurveType(curve) ==
    IF curve \in {Secp256k1, Edwards25519}
    THEN Return(NoError)
    ELSE Return(<<Frame(ErrCurveType, <<>>, <<curve>>, <<>>)>>)

SignatureType(signature) ==
    IF signature \in {Ecdsa, EcdsaRecovery, Ed25519}
    THEN Return(NoError)
    ELSE Return(<<Frame(ErrSignatureType, <<>>, <<signature>>, <<>>)>>)

\* faulty variant of PublicKey: the curve is checked before the bytes
PublicKeyCurveFirst(publicKey) ==
    IF publicKey = Nil
    THEN Return(New(ErrNilPublicKey))
    ELSE LET cerr == CurveType(Deref(publicKey).CurveType).err
             herr == checkHex(Deref(publicKey).HexBytes).err
         IN  IF cerr # NoError
             THEN Return(Wrap(cerr, ErrPublicKeyCurve))
             ELSE IF herr # NoError
                  THEN Return(Wrap(herr, ErrPublicKeyHex))
                  ELSE Return(NoError)

PublicKey(publicKey) ==
    IF publicKey = Nil
    THEN Return(New(ErrNilPublicKey))
    ELSE LET herr == checkHex(Deref(publicKey).HexBytes).err
             cerr == CurveType(Deref(publicKey).CurveType).err
         IN  IF herr # NoError
             THEN Return(Wrap(herr, ErrPublicKeyHex))
             ELSE IF cerr # NoError
                  THEN Return(Wrap(cerr, ErrPublicKeyCurve))
                  ELSE Return(NoError)

\* faulty variant of SigningPayload: the signature type is not optional
SigningPayloadTypeRequired(signingPayload) ==
    IF signingPayload = Nil
    THEN Return(New(ErrNilSigningPayload))
    ELSE IF Deref(signingPayload).Address = ""
    THEN Return(New(ErrEmptyAddress))
    ELSE LET herr == checkHex(Deref(signingPayload).HexBytes).err
             terr == SignatureType(Deref(signingPayload).SignatureType).err
         IN  IF herr # NoError
             THEN Return(Wrap(herr, ErrPayloadHex))
             ELSE IF terr # NoError
                  THEN Return(Wrap(terr, ErrPayloadSignatureType))
                  ELSE Return(NoError)

SigningPayload(signingPayload) ==
    IF signingPayload = Nil
    THEN Return(New(ErrNilSigningPayload))
    ELSE IF Deref(signingPayload).Address = ""
    THEN Return(New(ErrEmptyAddress))
    ELSE LET herr == checkHex(Deref(signingPayload).HexBytes).err
             terr == SignatureType(Deref(signingPayload).SignatureType).err
         IN  IF herr # NoError
             THEN Return(Wrap(herr, ErrPayloadHex))
             ELSE IF Deref(signingPayload).SignatureType = ""
                  THEN Return(NoError)
                  ELSE IF terr # NoError
                       THEN Return(Wrap(terr, ErrPayloadSignatureType))
                       ELSE Return(NoError)

\* faulty variant of TypeMismatch: compared even when nothing was requested
TypeMismatchAlwaysCompared(requested, returned) == requested # returned

\* the requested/returned comparison of the loop body of Signatures
TypeMismatch(requested, returned) == requested # "" /\ requested # returned

\* the body of the loop of Signatures for the element at Go index i:
\* Return(NoError) continues with the next element
SignaturesBody(signature, i) ==
    IF signature = Nil
    THEN Fault
    ELSE LET s == Deref(signature)
             perr == SigningPayload(s.SigningPayload).err
             kerr == PublicKey(s.PublicKey).err
             terr == SignatureType(s.SignatureType).err
             herr == checkHex(s.HexBytes).err
         IN  IF perr # NoError
             THEN Return(WrapIndex(perr, ErrSigSigningPayload, i))
             ELSE IF kerr # NoError
             THEN Return(WrapIndex(kerr, ErrSigPublicKey, i))
             ELSE IF terr # NoError
             THEN Return(WrapIndex(terr, ErrSigSignatureType, i))
             ELSE IF TypeMismatch(Deref(s.SigningPayload).SignatureType, s.SignatureType)
             THEN Return(New(ErrSignatureTypeMismatch))
             ELSE IF herr # NoError
             THEN Return(WrapIndex(herr, ErrSigHex, i))
             ELSE Return(NoError)

\* a slice: nil or not, and its elements (a nil slice has none)
Slice(isNil, elems) == [isNil |-> isNil, elems |-> elems]

RECURSIVE SignaturesLoop(_, _)
\* the loop of Signatures from the k-th element (Go index k - 1) on
SignaturesLoop(elems, k) ==
    IF k > Len(elems)
    THEN Return(NoError)
    ELSE LET r == SignaturesBody(elems[k], k - 1)
         IN  IF r # Return(NoError) THEN r ELSE SignaturesLoop(elems, k + 1)

\* faulty variant of Signatures: the length test is missing
SignaturesNoEmptyCheck(signatures) == SignaturesLoop(signatures.elems, 1)

Signatures(signatures) ==
    IF Len(signatures.elems) = 0
    THEN Return(New(ErrEmptySignatureList))
    ELSE SignaturesLoop(signatures.elems, 1)

\* faulty variant of ConstructionMetadata: len(Metadata) == 0 instead of == nil
ConstructionMetadataLenCheck(response) ==
    IF response = Nil
    THEN Fault
    ELSE IF Deref(response).Metadata = Nil \/ Deref(response).Metadata = Ptr({})
         THEN Return(New(ErrNilMetadata))
         ELSE Return(NoError)

ConstructionMetadata(response) ==
    IF response = Nil
    THEN Fault
    ELSE IF Deref(response).Metadata = Nil
         THEN Return(New(ErrNilMetadata))
         ELSE Return(NoError)

\* asserter.TransactionIdentifier, the identifier validator ConstructionSubmit calls
ErrTransactionIdentifier == "transaction identifier is not valid"

TransactionIdentifier(transactionIdentifier) ==
    IF transactionIdentifier = Nil
    THEN Return(New(ErrTransactionIdentifier))
    ELSE IF Deref(transactionIdentifier).Hash = ""
         THEN Return(New(ErrTransactionIdentifier))
         ELSE Return(NoError)

ConstructionSubmit(response) ==
    IF response = Nil
    THEN Fault
    ELSE TransactionIdentifier(Deref(response).TransactionIdentifier)

(***************************************************************************)
(* The inputs a caller can hand to the checks.                             *)
(***************************************************************************)
HexChars == {"0", "9", "a", "F", "g", "x"}

RECURSIVE TextsOfLen(_)
TextsOfLen(n) ==
    IF n = 0
    THEN {<<>>}
    ELSE {Append(t, c) : t \in TextsOfLen(n - 1), c \in HexChars}

\* every text over HexChars of at most MaxStrLen characters
HexTexts == UNION {TextsOfLen(n) : n \in 0..MaxStrLen}

\* the hex texts carried by the fields of the composite inputs:
\* empty, odd length, a non-hex character, mixed-case valid hex
FieldHex == {<<>>, <<"a">>, <<"0", "x">>, <<"0", "F">>}

GoodHex == <<"0", "F">>

CurveTags == {"secp256k1", "edwards25519", "", "bitcoin", "SECP256K1", "Edwards25519"}

SignatureTags == {"ecdsa", "ecdsa_recovery", "ed25519", "", "ECDSA", "Ed25519", "schnorr"}

Addresses == {"", "addr1"}

PublicKeys ==
    {Nil} \cup {Ptr([HexBytes |-> h, CurveType |-> c]) : h \in FieldHex, c \in CurveTags}

SigningPayloads ==
    {Nil} \cup {Ptr([Address |-> a, HexBytes |-> h, SignatureType |-> t]) :
                    a \in Addresses, h \in FieldHex, t \in SignatureTags}

\* the parts of the elements of a signature list
ElemPayloads ==
    {Nil,
     Ptr([Address |-> "addr1", HexBytes |-> GoodHex, SignatureType |-> ""]),
     Ptr([Address |-> "addr1", HexBytes |-> GoodHex, SignatureType |-> "ecdsa"]),
     Ptr([Address |-> "addr1", HexBytes |-> GoodHex, SignatureType |-> "ECDSA"])}

ElemKeys ==
    {Nil,
     Ptr([HexBytes |-> GoodHex, CurveType |-> "secp256k1"]),
     Ptr([HexBytes |-> GoodHex, CurveType |-> "bitcoin"])}

ElemTags == {"ecdsa", "ed25519", ""}

ElemHex == {GoodHex, <<>>}

SignatureElems ==
    {Nil} \cup {Ptr([SigningPayload |-> p, PublicKey |-> k, SignatureType |-> t, HexBytes |-> h]) :
                    p \in ElemPayloads, k \in ElemKeys, t \in ElemTags, h \in ElemHex}

\* every list of exactly n elements
ListsOfLen(n) == [1..n -> SignatureElems]

\* whether a slice of n elements can be the nil slice
Nilness(n) == IF n = 0 THEN BOOLEAN ELSE {FALSE}

MetadataMaps == {Nil, Ptr({}), Ptr({<<"account_sequence", "7">>})}

MetadataResponses == {Nil} \cup {Ptr([Metadata |-> m]) : m \in MetadataMaps}

TransactionIdentifiers == {Nil, Ptr([Hash |-> ""]), Ptr([Hash |-> "tx1"])}

SubmitResponses == {Nil} \cup {Ptr([TransactionIdentifier |-> t]) : t \in TransactionIdentifiers}

(***************************************************************************)
(* The state machine: a caller constructs a value, hands it to one check,  *)
(* receives the outcome and discards both.                                 *)
(***************************************************************************)
Init ==
    /\ fn = "idle"
    /\ arg = <<>>
    /\ result = Return(NoError)

CallCheckHex ==
    /\ fn = "idle"
    /\ \E s \in HexTexts :
        /\ arg' = s
        /\ result' = checkHex(s)
    /\ fn' = "checkHex"

CallCurveType ==
    /\ fn = "idle"
    /\ \E c \in CurveTags :
        /\ arg' = c
        /\ result' = CurveType(c)
    /\ fn' = "CurveType"

CallSignatureType ==
    /\ fn = "idle"
    /\ \E t \in SignatureTags :
        /\ arg' = t
        /\ result' = SignatureType(t)
    /\ fn' = "SignatureType"

CallPublicKey ==
    /\ fn = "idle"
    /\ \E k \in PublicKeys :
        /\ arg' = k
        /\ result' = PublicKey(k)
    /\ fn' = "PublicKey"

CallSigningPayload ==
    /\ fn = "idle"
    /\ \E p \in SigningPayloads :
        /\ arg' = p
        /\ result' = SigningPayload(p)
    /\ fn' = "SigningPayload"

CallSignatures ==
    /\ fn = "idle"
    /\ \E n \in 0..MaxSigs : \E l \in ListsOfLen(n) : \E isNil \in Nilness(n) :
        /\ arg' = Slice(isNil, l)
        /\ result' = Signatures(Slice(isNil, l))
    /\ fn' = "Signatures"

CallConstructionMetadata ==
    /\ fn = "idle"
    /\ \E r \in MetadataResponses :
        /\ arg' = r
        /\ result' = ConstructionMetadata(r)
    /\ fn' = "ConstructionMetadata"

CallConstructionSubmit ==
    /\ fn = "idle"
    /\ \E r \in SubmitResponses :
        /\ arg' = r
        /\ result' = ConstructionSubmit(r)
    /\ fn' = "ConstructionSubmit"

\* the caller drops the value and the outcome
Discard ==
    /\ fn # "idle"
    /\ fn' = "idle"
    /\ arg' = <<>>
    /\ result' = Return(NoError)

Next ==
    \/ CallCheckHex
    \/ CallCurveType
    \/ CallSignatureType
    \/ CallPublicKey
    \/ CallSigningPayload
    \/ CallSignatures
    \/ CallConstructionMetadata
    \/ CallConstructionSubmit
    \/ Discard

Spec == Init /\ [][Next]_vars

(***************************************************************************)
(* Vocabulary of the properties.                                           *)
(***************************************************************************)
Succeeded(r) == r = Return(NoError)

Failed(r) == ~r.fault /\ r.err # NoError

\* the message the failure r was returned with (the outermost of its chain)
Outer(r) == r.err[Len(r.err)]

\* the failure r is err with one more message around it
Encloses(r, err) == SubSeq(r.err, 1, Len(r.err) - 1) = err

\* the characters 0-9, a-f, A-F
HexAlphabet == {"0", "1", "2", "3", "4", "5", "6", "7", "8", "9"}
                   \cup {"a", "b", "c", "d", "e", "f"} \cup {"A", "B", "C", "D", "E", "F"}

\* non-empty, of even length, made of hexadecimal characters only
WellFormedHex(s) ==
    /\ Len(s) > 0
    /\ Len(s) % 2 = 0
    /\ \A j \in 1..Len(s) : s[j] \in HexAlphabet

SupportedCurves == {"secp256k1", "edwards25519"}

SupportedSignatures == {"ecdsa", "ecdsa_recovery", "ed25519"}

UnsupportedEnumValue(r, msg, value) == r = Return(<<Frame(msg, <<>>, <<value>>, <<>>)>>)

\* an element of a signature list that passes all five steps
ElementOK(e) ==
    /\ e # Nil
    /\ Succeeded(SigningPayload(Deref(e).SigningPayload))
    /\ Succeeded(PublicKey(Deref(e).PublicKey))
    /\ Deref(e).SignatureType \in SupportedSignatures
    /\ \/ Deref(Deref(e).SigningPayload).SignatureType = ""
       \/ Deref(Deref(e).SigningPayload).SignatureType = Deref(e).SignatureType
    /\ Succeeded(checkHex(Deref(e).HexBytes))

HasInvalid(elems) == \E j \in 1..Len(elems) : ~ElementOK(elems[j])

\* the position of the lowest-indexed invalid element (Go index FirstInvalid - 1)
FirstInvalid(elems) ==
    CHOOSE j \in 1..Len(elems) :
        /\ ~ElementOK(elems[j])
        /\ \A k \in 1..(j - 1) : ElementOK(elems[k])

IsMismatch(r) == r = Return(New(ErrSignatureTypeMismatch))

\* the failure of the first failing step of the present element s at Go index i
FirstFailingStep(s, i) ==
    IF Failed(SigningPayload(s.SigningPayload))
    THEN WrapIndex(SigningPayload(s.SigningPayload).err, ErrSigSigningPayload, i)
    ELSE IF Failed(PublicKey(s.PublicKey))
    THEN WrapIndex(PublicKey(s.PublicKey).err, ErrSigPublicKey, i)
    ELSE IF Failed(SignatureType(s.SignatureType))
    THEN WrapIndex(SignatureType(s.SignatureType).err, ErrSigSignatureType, i)
    ELSE IF /\ Deref(s.SigningPayload).SignatureType # ""
            /\ Deref(s.SigningPayload).SignatureType # s.SignatureType
    THEN New(ErrSignatureTypeMismatch)
    ELSE WrapIndex(checkHex(s.HexBytes).err, ErrSigHex, i)

\* l agrees with elems on the first n elements
SamePrefix(l, elems, n) == Len(l) >= n /\ SubSeq(l, 1, n) = SubSeq(elems, 1, n)

(***************************************************************************)
(* The properties.                                                         *)
(***************************************************************************)

\* C1: Signatures is fail-fast: on a non-empty list whose lowest-indexed
\* invalid element is at index i it returns the failure of the first failing
\* step of element i (payload, public key, signature type, cross-check, hex
\* bytes, in this order), and the elements after i do not matter: any list
\* with the same elements up to i gives the same result.
C1_FailFast ==
    (fn = "Signatures" /\ HasInvalid(arg.elems)) =>
        LET i == FirstInvalid(arg.elems)
        IN  /\ Failed(result)
            /\ arg.elems[i] # Nil =>
                   result = Return(FirstFailingStep(Deref(arg.elems[i]), i - 1))
            /\ \A n \in i..MaxSigs : \A l \in ListsOfLen(n) :
                   SamePrefix(l, arg.elems, i) => Signatures(Slice(FALSE, l)) = result

\* Supporting lemma: on the lists whose lowest-indexed invalid element is present (not nil),
\* the fail-fast order and the independence from the later elements hold.
FailFastPresent ==
    (fn = "Signatures" /\ HasInvalid(arg.elems)
        /\ arg.elems[FirstInvalid(arg.elems)] # Nil) =>
        LET i == FirstInvalid(arg.elems)
        IN  /\ result = Return(FirstFailingStep(Deref(arg.elems[i]), i - 1))
            /\ \A n \in i..MaxSigs : \A l \in ListsOfLen(n) :
                   SamePrefix(l, arg.elems, i) => Signatures(Slice(FALSE, l)) = result

\* C2: every failure Signatures returns for an element of a non-empty list
\* carries the index of the offending element.
C2_IndexCarried ==
    (fn = "Signatures" /\ Len(arg.elems) > 0 /\ Failed(result)) =>
        Outer(result).index = <<FirstInvalid(arg.elems) - 1>>

\* C3: Signatures succeeds iff the list is non-empty and every element passes
\* the payload check, the public key check, has a supported signature type, a
\* payload signature type that is empty or equal to its own, and valid hex
\* bytes; an empty or nil list fails with EmptySignatureList.
C3_SignaturesSuccess ==
    fn = "Signatures" =>
        /\ Succeeded(result) <=>
               (Len(arg.elems) >= 1 /\ \A j \in 1..Len(arg.elems) : ElementOK(arg.elems[j]))
        /\ Len(arg.elems) = 0 => result = Return(New(ErrEmptySignatureList))

C3_Witness ==
    /\ fn = "Signatures"
    /\ Len(arg.elems) = 2
    /\ Succeeded(result)
    /\ Deref(Deref(arg.elems[1]).SigningPayload).SignatureType = ""
    /\ Deref(Deref(arg.elems[2]).SigningPayload).SignatureType = "ecdsa"

\* C4: the cross-check triggers only when the payload's signature type is
\* non-empty: for the element Signatures stops at, with a valid payload and a
\* valid public key, the result is SignatureTypeMismatch exactly when its own
\* type is valid and the payload's type is non-empty and differs from it, and
\* never when the payload's type is empty; no other list gives a mismatch.
C4_CrossCheck ==
    fn = "Signatures" =>
        IF HasInvalid(arg.elems) /\ arg.elems[FirstInvalid(arg.elems)] # Nil
        THEN LET s == Deref(arg.elems[FirstInvalid(arg.elems)])
             IN  IF Succeeded(SigningPayload(s.SigningPayload)) /\ Succeeded(PublicKey(s.PublicKey))
                 THEN /\ Succeeded(SignatureType(s.SignatureType)) =>
                             (IsMismatch(result) <=>
                                 /\ Deref(s.SigningPayload).SignatureType # ""
                                 /\ Deref(s.SigningPayload).SignatureType # s.SignatureType)
                      /\ Deref(s.SigningPayload).SignatureType = "" => ~IsMismatch(result)
                      /\ ~Succeeded(SignatureType(s.SignatureType)) => ~IsMismatch(result)
                 ELSE ~IsMismatch(result)
        ELSE ~IsMismatch(result)

C4_Witness ==
    /\ fn = "Signatures"
    /\ Len(arg.elems) = 2
    /\ ElementOK(arg.elems[1])
    /\ Deref(Deref(arg.elems[1]).SigningPayload).SignatureType = ""
    /\ Deref(arg.elems[1]).SignatureType = "ed25519"
    /\ arg.elems[2] # Nil
    /\ Deref(arg.elems[2]).SigningPayload # Nil
    /\ Deref(Deref(arg.elems[2]).SigningPayload).SignatureType = "ecdsa"
    /\ Deref(arg.elems[2]).SignatureType = "ed25519"
    /\ IsMismatch(result)

\* C5: SigningPayload fails with NilSigningPayload on an absent payload, else
\* with EmptyAddress on an empty address whatever the rest, else with the hex
\* failure of its bytes, else succeeds when the signature type is empty, else
\* succeeds exactly when the signature type is supported; so a present payload
\* is valid iff its address is non-empty, its bytes are valid hex and its
\* signature type is empty or one of ecdsa, ecdsa_recovery, ed25519.
C5_SigningPayload ==
    fn = "SigningPayload" =>
        IF arg = Nil
        THEN result = Return(New(ErrNilSigningPayload))
        ELSE LET p == Deref(arg)
             IN  /\ IF p.Address = ""
                    THEN result = Return(New(ErrEmptyAddress))
                    ELSE IF ~WellFormedHex(p.HexBytes)
                    THEN /\ Failed(result)
                         /\ Outer(result).msg = ErrPayloadHex
                         /\ Encloses(result, checkHex(p.HexBytes).err)
                    ELSE IF p.SignatureType = ""
                    THEN Succeeded(result)
                    ELSE IF p.SignatureType \in SupportedSignatures
                    THEN Succeeded(result)
                    ELSE /\ Failed(result)
                         /\ Outer(result).msg = ErrPayloadSignatureType
                         /\ Encloses(result, SignatureType(p.SignatureType).err)
                 /\ Succeeded(result) <=>
                        /\ p.Address # ""
                        /\ WellFormedHex(p.HexBytes)
                        /\ p.SignatureType \in SupportedSignatures \cup {""}

C5_Witness ==
    /\ fn = "SigningPayload"
    /\ arg # Nil
    /\ Deref(arg).Address # ""
    /\ WellFormedHex(Deref(arg).HexBytes)
    /\ Deref(arg).SignatureType = ""
    /\ Succeeded(result)

\* C6: PublicKey fails with NilPublicKey on an absent key; otherwise it checks
\* the hex bytes before the curve type and returns the first failure only; it
\* succeeds iff the bytes are valid hex and the curve is secp256k1 or
\* edwards25519.
C6_PublicKey ==
    fn = "PublicKey" =>
        IF arg = Nil
        THEN result = Return(New(ErrNilPublicKey))
        ELSE LET k == Deref(arg)
             IN  /\ IF ~WellFormedHex(k.HexBytes)
                    THEN /\ Failed(result)
                         /\ Outer(result).msg = ErrPublicKeyHex
                         /\ Encloses(result, checkHex(k.HexBytes).err)
                         /\ \A j \in 1..Len(result.err) : result.err[j].msg # ErrCurveType
                    ELSE IF k.CurveType \notin SupportedCurves
                    THEN /\ Failed(result)
                         /\ Outer(result).msg = ErrPublicKeyCurve
                         /\ Encloses(result, CurveType(k.CurveType).err)
                    ELSE Succeeded(result)
                 /\ Succeeded(result) <=>
                        (WellFormedHex(k.HexBytes) /\ k.CurveType \in SupportedCurves)

C6_Witness ==
    /\ fn = "PublicKey"
    /\ arg # Nil
    /\ ~WellFormedHex(Deref(arg).HexBytes)
    /\ Deref(arg).CurveType \notin SupportedCurves
    /\ Failed(result)
    /\ Outer(result).msg = ErrPublicKeyHex

\* C7: the hex check has three outcomes: the empty string fails with
\* EmptyValue (never InvalidHex); a non-empty string with a non-hex character
\* or of odd length fails with InvalidHex; every non-empty, even-length string
\* of the characters 0-9, a-f, A-F succeeds.
C7_HexPartition ==
    fn = "checkHex" =>
        IF Len(arg) = 0
        THEN result = Return(New(ErrEmptyValue))
        ELSE IF WellFormedHex(arg)
        THEN Succeeded(result)
        ELSE /\ Failed(result)
             /\ Outer(result) = Frame(ErrInvalidHex, <<>>, <<>>, <<arg>>)

C7_Witness ==
    /\ fn = "checkHex"
    /\ Len(arg) = 3
    /\ \A j \in 1..Len(arg) : arg[j] \in HexAlphabet
    /\ Failed(result)
    /\ Outer(result).msg = ErrInvalidHex

\* C8: the enumeration checks are exact membership tests: CurveType succeeds
\* iff the tag is secp256k1 or edwards25519, SignatureType iff it is ecdsa,
\* ecdsa_recovery or ed25519; any other tag, the empty one and a differently
\* cased one included, fails with UnsupportedEnumValue carrying the tag.
C8_EnumMembership ==
    /\ fn = "CurveType" =>
           IF arg \in SupportedCurves
           THEN Succeeded(result)
           ELSE UnsupportedEnumValue(result, ErrCurveType, arg)
    /\ fn = "SignatureType" =>
           IF arg \in SupportedSignatures
           THEN Succeeded(result)
           ELSE UnsupportedEnumValue(result, ErrSignatureType, arg)

C8_Witness ==
    /\ fn = "CurveType"
    /\ arg = "SECP256K1"
    /\ UnsupportedEnumValue(result, ErrCurveType, "SECP256K1")

\* C9: ConstructionMetadata, given a response, fails with NilMetadata iff the
\* response's metadata map is nil; a present map is valid whatever it holds,
\* the map with zero entries included.
C9_Metadata ==
    (fn = "ConstructionMetadata" /\ arg # Nil) =>
        /\ result = Return(New(ErrNilMetadata)) <=> Deref(arg).Metadata = Nil
        /\ Deref(arg).Metadata # Nil => Succeeded(result)

C9_Witness ==
    /\ fn = "ConstructionMetadata"
    /\ arg # Nil
    /\ Deref(arg).Metadata = Ptr({})
    /\ Succeeded(result)

\* C10: every check is total: whatever its input, a nil top-level value or a
\* nil element of a list included, the call returns success or a failure
\* value and never aborts with a fault.
C10_Total == ~result.fault

====
